---- MODULE Spec2Model ----
(***************************************************************************)
(* Model of crates/router/src/types/api/payments.rs: the attempt-status to *)
(* intent-status reducer, the mandate classifier, payment identifier        *)
(* narrowing and its JSON encoding, the Payment connector trait, the card   *)
(* response projection, the next-action object and the list constraints.    *)
(* Every component is a value transformation; each one gets its own         *)
(* specification over its own variables, the other variables stay parked.   *)
(***************************************************************************)
EXTENDS Integers, Sequences, FiniteSets, TLC

VARIABLES
    reduceLog,      \* IntentStatus::from calls made so far: <<[s, status]>>
    self_id,        \* the PaymentIdType get_payment_intent_id is called on
    held,           \* the identifier as the caller constructed it
    narrowed,       \* the CustomResult it returned, or NotCalled
    request,        \* the PaymentsRequest is_mandate is called on
    mandate,        \* the Option<MandateTxnType> it returned, or NotCalled
    sample,         \* the PaymentIdType being serialized
    s_sample,       \* serde_json::to_string(&sample), or NotCalled
    ds_sample,      \* serde_json::from_str(&s_sample), or NotCalled
    serialized,     \* the sample serialized before this one, with its text
    impls,          \* per connector type, the traits it has an impl of
    registry,       \* connectors admitted as payment connectors
    last_event,     \* the last registration or connector call and its outcome
    card,           \* the CCard of a request
    card_response,  \* CCardResponse::from(card), a panic, or NotCalled
    shared,         \* the inputs every task reads: [att, ident, req]
    published,      \* the inputs as they were when they were shared
    pc,             \* per task: "idle", "called" or "returned"
    calling,        \* per task: the function it is calling, or "none"
    result,         \* per task: the value its call returned
    data,           \* PaymentListResponse.data: the next_action of each response
    query,          \* the fields of a list request as they arrive
    constraints,    \* the PaymentListConstraints deserialized, or NotCalled
    item,           \* the request a PaymentsResponse is built from
    response        \* PaymentsResponse::from(item), a panic, or NotCalled

reducerVars == <<reduceLog>>
narrowVars  == <<self_id, held, narrowed>>
mandateVars == <<request, mandate>>
serdeVars   == <<sample, s_sample, ds_sample, serialized>>
traitVars   == <<impls, registry, last_event>>
cardVars    == <<card, card_response>>
taskVars    == <<shared, published, pc, calling, result>>
actionVars  == <<data>>
listVars    == <<query, constraints>>
projVars    == <<item, response>>
vars == <<reduceLog, self_id, held, narrowed, request, mandate,
          sample, s_sample, ds_sample, serialized,
          impls, registry, last_event, card, card_response,
          shared, published, pc, calling, result,
          data, query, constraints, item, response>>

NotCalled == [called |-> FALSE]

----------------------------------------------------------------------------
(* Bounds *)

MaxCalls == 3       \* length of the reducer call log
MaxIdLen == 3       \* length of an identifier string
MaxPayloadLen == 2  \* length of the string of a serialized identifier
MaxCardLen == 5     \* length of a card number
NumTasks == 2       \* tasks calling the pure functions concurrently
MaxResponses == 3   \* responses in one PaymentListResponse

----------------------------------------------------------------------------
(* Strings: sequences of characters over a small alphabet that contains the *)
(* two characters JSON escapes.                                             *)

Quote     == "\""
Backslash == "\\"
Alphabet  == {"a", Quote, Backslash}

StringsUpTo(n) == UNION {[1..k -> Alphabet] : k \in 0..n}

----------------------------------------------------------------------------
(* enums::AttemptStatus and enums::IntentStatus, as matched in the reducer *)

AttemptStatus ==
    {"Charged", "AutoRefunded", "ConfirmationAwaited", "PaymentMethodAwaited",
     "Authorized", "PendingVbv", "PartialCharged", "Started", "VbvSuccessful",
     "Authorizing", "CodInitiated", "VoidInitiated", "CaptureInitiated",
     "Pending", "AuthenticationFailed", "AuthorizationFailed", "VoidFailed",
     "JuspayDeclined", "CaptureFailed", "Failure", "Voided"}

IntentStatus ==
    {"Succeeded", "RequiresConfirmation", "RequiresPaymentMethod",
     "RequiresCapture", "RequiresCustomerAction", "Processing", "Failed",
     "Cancelled"}

IntentStatusFrom_PartialChargedSucceeded(s) ==
    CASE s \in {"Charged", "AutoRefunded", "PartialCharged"} -> "Succeeded"
      [] s = "ConfirmationAwaited" -> "RequiresConfirmation"
      [] s = "PaymentMethodAwaited" -> "RequiresPaymentMethod"
      [] s = "Authorized" -> "RequiresCapture"
      [] s = "PendingVbv" -> "RequiresCustomerAction"
      [] s \in {"Started", "VbvSuccessful", "Authorizing",
                "CodInitiated", "VoidInitiated", "CaptureInitiated",
                "Pending"} -> "Processing"
      [] s \in {"AuthenticationFailed", "AuthorizationFailed", "VoidFailed",
                "JuspayDeclined", "CaptureFailed", "Failure"} -> "Failed"
      [] s = "Voided" -> "Cancelled"

\* impl From<enums::AttemptStatus> for enums::IntentStatus: one arm per line
\* of the match, no wildcard arm.
IntentStatusFrom(s) ==
    CASE s \in {"Charged", "AutoRefunded"} -> "Succeeded"
      [] s = "ConfirmationAwaited" -> "RequiresConfirmation"
      [] s = "PaymentMethodAwaited" -> "RequiresPaymentMethod"
      [] s = "Authorized" -> "RequiresCapture"
      [] s = "PendingVbv" -> "RequiresCustomerAction"
      [] s \in {"PartialCharged", "Started", "VbvSuccessful", "Authorizing",
                "CodInitiated", "VoidInitiated", "CaptureInitiated",
                "Pending"} -> "Processing"
      [] s \in {"AuthenticationFailed", "AuthorizationFailed", "VoidFailed",
                "JuspayDeclined", "CaptureFailed", "Failure"} -> "Failed"
      [] s = "Voided" -> "Cancelled"

\* A reducer that keeps state between calls: it answers for the argument
\* of the call before this one.
Reduce_Stale(s) ==
    /\ Len(reduceLog) < MaxCalls
    /\ reduceLog' = Append(reduceLog,
          [s |-> s,
           status |-> IF reduceLog = <<>> THEN IntentStatusFrom(s)
                      ELSE IntentStatusFrom(reduceLog[Len(reduceLog)].s)])

\* One call IntentStatus::from(s); the log records the argument and the
\* value returned.
Reduce(s) ==
    /\ Len(reduceLog) < MaxCalls
    /\ reduceLog' = Append(reduceLog, [s |-> s, status |-> IntentStatusFrom(s)])

InitReducer == reduceLog = <<>>

----------------------------------------------------------------------------
(* PaymentIdType and get_payment_intent_id *)

PaymentIdTags == {"PaymentIntentId", "ConnectorTransactionId", "PaymentTxnId"}

\* enum PaymentIdType: a tag and the String it carries
PaymentIdType == [tag : PaymentIdTags, id : StringsUpTo(MaxIdLen)]

\* errors::ValidationError::IncorrectValueProvided { field_name }
IncorrectValueProvided(field) ==
    [kind |-> "IncorrectValueProvided", field_name |-> field]

Ok(v)  == [called |-> TRUE, ok |-> TRUE, value |-> v]
Err(e) == [called |-> TRUE, ok |-> FALSE, error |-> e]

get_payment_intent_id_AnyTag(self) == Ok(self.id)

\* PaymentIdType::get_payment_intent_id(&self)
get_payment_intent_id(self) ==
    CASE self.tag = "PaymentIntentId" -> Ok(self.id)
      [] self.tag \in {"ConnectorTransactionId", "PaymentTxnId"} ->
            Err(IncorrectValueProvided("payment_id"))

\* A caller constructs an identifier (enum PaymentIdType, any variant).
Hold(p) ==
    /\ self_id' = p
    /\ held' = p
    /\ narrowed' = NotCalled

\* self_id.get_payment_intent_id(): &self is a shared borrow and the Ok arm
\* clones the string, so the identifier is the same value after the call.
Narrow ==
    /\ narrowed' = get_payment_intent_id(self_id)
    /\ UNCHANGED <<self_id, held>>

\* impl Default for PaymentIdType
PaymentIdTypeDefault == [tag |-> "PaymentIntentId", id |-> <<>>]

InitNarrow ==
    /\ self_id = PaymentIdTypeDefault
    /\ held = PaymentIdTypeDefault
    /\ narrowed = NotCalled

----------------------------------------------------------------------------
(* PaymentsRequest and is_mandate *)

None    == [some |-> FALSE]
Some(v) == [some |-> TRUE, v |-> v]
Option(S) == {None} \cup {Some(v) : v \in S}

\* enum AcceptanceType, struct CustomerAcceptance, struct MandateData
AcceptanceType == {"Online", "Offline"}
MandateData ==
    [customer_acceptance : [acceptance_type : AcceptanceType]]

\* The fields of struct PaymentsRequest the operations of this file read,
\* and two they do not.
PaymentsRequest ==
    [payment_id   : Option([tag : PaymentIdTags, id : {<<"a">>}]),
     amount       : Option({200}),
     mandate_data : Option(MandateData),
     mandate_id   : Option({<<"a">>, <<"a", "a">>})]

\* impl Default for PaymentsRequest (derived): every field None
PaymentsRequestDefault ==
    [payment_id |-> None, amount |-> None, mandate_data |-> None,
     mandate_id |-> None]

is_mandate_DataFirst(self) ==
    CASE ~self.mandate_data.some /\ ~self.mandate_id.some -> None
      [] self.mandate_data.some -> Some("NewMandateTxn")
      [] OTHER -> Some("RecurringMandateTxn")

\* PaymentsRequest::is_mandate(&self): the match arms in source order, the
\* first arm that matches wins.
is_mandate(self) ==
    IF ~self.mandate_data.some /\ ~self.mandate_id.some THEN None
    ELSE IF self.mandate_id.some THEN Some("RecurringMandateTxn")
    ELSE IF self.mandate_data.some THEN Some("NewMandateTxn")
    ELSE [unreachable |-> TRUE]

\* A request arrives (deserialized or built by a caller).
NewRequest(r) ==
    /\ request' = r
    /\ mandate' = NotCalled

\* request.is_mandate()
IsMandate ==
    /\ mandate' = [called |-> TRUE, ret |-> is_mandate(request)]
    /\ UNCHANGED request

InitMandate ==
    /\ request = PaymentsRequestDefault
    /\ mandate = NotCalled

----------------------------------------------------------------------------
(* serde_json encoding of PaymentIdType.  The enum derives Serialize and    *)
(* Deserialize with no serde attribute, which is the externally tagged      *)
(* form: a newtype variant V(s) is the JSON object {"V":"s"}, the string    *)
(* with its quotes and backslashes escaped.  Texts are character sequences. *)

VariantName ==
    [t \in PaymentIdTags |->
        CASE t = "PaymentIntentId" -> <<"P", "a", "y", "m", "e", "n", "t", "I", "n", "t", "e", "n", "t", "I", "d">>
          [] t = "ConnectorTransactionId" -> <<"C", "o", "n", "n", "e", "c", "t", "o", "r", "T", "r", "a", "n", "s", "a", "c", "t", "i", "o", "n", "I", "d">>
          [] t = "PaymentTxnId" -> <<"P", "a", "y", "m", "e", "n", "t", "T", "x", "n", "I", "d">>]

RECURSIVE EscapeStr(_)
\* the JSON string escape of a String
EscapeStr(str) ==
    IF str = <<>> THEN <<>>
    ELSE (IF Head(str) \in {Quote, Backslash} THEN <<Backslash, Head(str)>>
          ELSE <<Head(str)>>) \o EscapeStr(Tail(str))

to_string_Unescaped(p) ==
    <<"{", Quote>> \o VariantName[p.tag] \o <<Quote, ":", Quote>>
        \o p.id \o <<Quote, "}">>

\* serde_json::to_string(&p) for p : PaymentIdType
to_string(p) ==
    <<"{", Quote>> \o VariantName[p.tag] \o <<Quote, ":", Quote>>
        \o EscapeStr(p.id) \o <<Quote, "}">>

RECURSIVE ParseStr(_, _, _)
\* Reads a JSON string body from position i (just after the opening quote)
\* up to its closing quote: [ok, value, next], next just after that quote.
ParseStr(text, i, acc) ==
    IF i > Len(text) THEN [ok |-> FALSE]
    ELSE IF text[i] = Quote THEN [ok |-> TRUE, value |-> acc, next |-> i + 1]
    ELSE IF text[i] = Backslash THEN
        IF i + 1 <= Len(text) /\ text[i + 1] \in {Quote, Backslash}
        THEN ParseStr(text, i + 2, Append(acc, text[i + 1]))
        ELSE [ok |-> FALSE]
    ELSE ParseStr(text, i + 1, Append(acc, text[i]))

SyntaxError == [called |-> TRUE, ok |-> FALSE, error |-> "serde_json::Error"]

\* serde_json::from_str::<PaymentIdType>(text): an object with one key that
\* names a variant and a string value, and nothing after it.
from_str(text) ==
    IF ~(Len(text) >= 2 /\ text[1] = "{" /\ text[2] = Quote) THEN SyntaxError
    ELSE LET k == ParseStr(text, 3, <<>>) IN
      IF ~k.ok THEN SyntaxError
      ELSE IF ~(k.next + 1 <= Len(text) /\ text[k.next] = ":"
                /\ text[k.next + 1] = Quote) THEN SyntaxError
      ELSE LET v == ParseStr(text, k.next + 2, <<>>) IN
        IF ~v.ok THEN SyntaxError
        ELSE IF ~(v.next = Len(text) /\ text[v.next] = "}") THEN SyntaxError
        ELSE IF \E t \in PaymentIdTags : VariantName[t] = k.value
             THEN Ok([tag |-> CHOOSE t \in PaymentIdTags :
                                 VariantName[t] = k.value,
                      id |-> v.value])
             ELSE SyntaxError

\* let sample_1 = PaymentIdType::...(...): a new sample; the one before it
\* is kept with its text when it had been serialized.
Sample(p) ==
    /\ sample' = p
    /\ s_sample' = NotCalled
    /\ ds_sample' = NotCalled
    /\ serialized' = IF s_sample.called
                     THEN Some([sample |-> sample, text |-> s_sample.text])
                     ELSE serialized

\* let s_sample_1 = serde_json::to_string(&sample_1).unwrap()
SerializeSample ==
    /\ ~s_sample.called
    /\ s_sample' = [called |-> TRUE, text |-> to_string(sample)]
    /\ UNCHANGED <<sample, ds_sample, serialized>>

\* let ds_sample_1 = serde_json::from_str::<PaymentIdType>(&s_sample_1)
DeserializeText ==
    /\ s_sample.called
    /\ ~ds_sample.called
    /\ ds_sample' = from_str(s_sample.text)
    /\ UNCHANGED <<sample, s_sample, serialized>>

InitSerde ==
    /\ sample = PaymentIdTypeDefault
    /\ s_sample = NotCalled
    /\ ds_sample = NotCalled
    /\ serialized = None

----------------------------------------------------------------------------
(* The connector traits.  A trait declaration `trait T: A + B {}` makes A   *)
(* and B supertraits of T: the compiler accepts `impl T for X` only when X  *)
(* also implements A and B.  Nothing in the declaration implements T for a  *)
(* type that has A and B; that takes an impl of its own.                    *)

\* struct Authorize, PCapture, PSync, Void: the operation markers
Operations == {"Authorize", "PSync", "PCapture", "Void"}

\* api::ConnectorIntegration<Op, Req, Resp>, one specialization per marker
ConnectorIntegration ==
    [op \in Operations |->
        CASE op = "Authorize" -> "ConnectorIntegration<Authorize>"
          [] op = "PSync"     -> "ConnectorIntegration<PSync>"
          [] op = "PCapture"  -> "ConnectorIntegration<PCapture>"
          [] op = "Void"      -> "ConnectorIntegration<Void>"]

\* trait PaymentAuthorize, PaymentSync, PaymentVoid, PaymentCapture
PaymentTraitOf ==
    [op \in Operations |->
        CASE op = "Authorize" -> "PaymentAuthorize"
          [] op = "PSync"     -> "PaymentSync"
          [] op = "PCapture"  -> "PaymentCapture"
          [] op = "Void"      -> "PaymentVoid"]

PaymentSupertraits_NoVoid ==
    {"ConnectorCommon", "PaymentAuthorize", "PaymentSync", "PaymentCapture"}

\* trait Payment: ConnectorCommon + PaymentAuthorize + PaymentSync
\*                + PaymentCapture + PaymentVoid
PaymentSupertraits ==
    {"ConnectorCommon", "PaymentAuthorize", "PaymentSync", "PaymentCapture",
     "PaymentVoid"}

Traits ==
    {"Payment"} \cup PaymentSupertraits
        \cup {ConnectorIntegration[op] : op \in Operations}

\* the supertraits each trait declaration of this file names
Supertraits(t) ==
    IF t = "Payment" THEN PaymentSupertraits
    ELSE IF \E op \in Operations : PaymentTraitOf[op] = t
         THEN {ConnectorIntegration[op] : op \in {o \in Operations :
                                                    PaymentTraitOf[o] = t}}
    ELSE {}

\* the connector types of a build
Connectors == {"c1", "c2"}

\* `impl t for c {}` as the compiler accepts it: the supertraits of t must
\* be implemented for c.
Impl(c, t) ==
    /\ t \notin impls[c]
    /\ Supertraits(t) \subseteq impls[c]
    /\ impls' = [impls EXCEPT ![c] = @ \cup {t}]
    /\ UNCHANGED <<registry, last_event>>

\* Registration of c as a payment connector: the registry holds connectors
\* through the Payment trait, so c is admitted when it implements Payment
\* and rejected otherwise.
Register(c) ==
    /\ c \notin registry
    /\ registry' = IF "Payment" \in impls[c] THEN registry \cup {c}
                   ELSE registry
    /\ last_event' = [kind |-> "register", connector |-> c,
                      admitted |-> "Payment" \in impls[c]]
    /\ UNCHANGED impls

\* The router runs operation op on an admitted connector; the call goes
\* through the connector's ConnectorIntegration for that operation.
Call(c, op) ==
    /\ c \in registry
    /\ last_event' = [kind |-> "call", connector |-> c, op |-> op,
                      outcome |-> IF ConnectorIntegration[op] \in impls[c]
                                  THEN "handled"
                                  ELSE "unsupported operation"]
    /\ UNCHANGED <<impls, registry>>

InitTraits ==
    /\ impls = [c \in Connectors |-> {}]
    /\ registry = {}
    /\ last_event = [kind |-> "none"]

----------------------------------------------------------------------------
(* CCard and its response projection *)

Digits == {"1", "4"}

CardNumbers == UNION {[1..k -> Digits] : k \in 0..MaxCardLen}

\* struct CCard; the Secret wrappers are peeked, so fields are the strings
CCard ==
    [card_number      : CardNumbers,
     card_exp_month   : {<<"1", "2">>},
     card_exp_year    : {<<"9", "9">>, <<"3", "0">>},
     card_holder_name : {<<"J", "o", "h", "n", "D", "o", "e">>},
     card_cvc         : {<<"1", "2", "3">>, <<"4", "1", "1">>}]

\* impl Default for CCard (derived): every string empty
CCardDefault ==
    [card_number |-> <<>>, card_exp_month |-> <<>>, card_exp_year |-> <<>>,
     card_holder_name |-> <<>>, card_cvc |-> <<>>]

\* str[from..to] of Rust: the characters at 0-based positions from..to-1
Slice(str, from, to) == SubSeq(str, from + 1, to)

\* impl From<CCard> for CCardResponse.  card_number_length - 4 is a usize
\* subtraction: below 4 it overflows, which panics in a build with overflow
\* checks and otherwise wraps to a start index past the end that the slice
\* rejects with a panic; either way no response is built.
CCardResponseFrom(c) ==
    LET card_number_length == Len(c.card_number) IN
    IF card_number_length < 4 THEN [called |-> TRUE, panicked |-> TRUE]
    ELSE [called |-> TRUE, panicked |-> FALSE,
          response |->
            [last4 |-> Slice(c.card_number, card_number_length - 4,
                             card_number_length),
             exp_month |-> c.card_exp_month,
             exp_year |-> c.card_exp_year]]

\* A request carries a card as its payment method data.
NewCard(c) ==
    /\ card' = c
    /\ card_response' = NotCalled

\* CCardResponse::from(card)
ProjectCard ==
    /\ ~card_response.called
    /\ card_response' = CCardResponseFrom(card)
    /\ UNCHANGED card

InitCard ==
    /\ card = CCardDefault
    /\ card_response = NotCalled

----------------------------------------------------------------------------
(* PaymentsResponse built from a PaymentsRequest or a                       *)
(* PaymentsRetrieveRequest                                                  *)

\* struct PayLaterData
PayLaterData ==
    [billing_email : {<<"e">>}, country : {<<"c">>}]

\* the cards of the requests a response is built from: one card number
\* shorter than 4 characters and one longer
RequestCards ==
    {c \in CCard :
        /\ c.card_number \in {<<"1", "1", "1">>, <<"1", "4", "1", "1", "4">>}
        /\ c.card_exp_year = <<"9", "9">>
        /\ c.card_cvc = <<"1", "2", "3">>}

\* enum PaymentMethod
PaymentMethod ==
    {[kind |-> "Card", card |-> c] : c \in RequestCards}
        \cup {[kind |-> "PayLater", pay_later |-> d] : d \in PayLaterData}
        \cup {[kind |-> k] : k \in {"BankTransfer", "Wallet", "Paypal"}}

\* impl From<PaymentMethod> for PaymentMethodDataResponse; the Card arm runs
\* CCardResponse::from and panics when that does.
PaymentMethodDataResponseFrom(payment_method_data) ==
    CASE payment_method_data.kind = "Card" ->
            LET r == CCardResponseFrom(payment_method_data.card) IN
            IF r.panicked THEN [panicked |-> TRUE]
            ELSE [panicked |-> FALSE,
                  v |-> [kind |-> "Card", card |-> r.response]]
      [] payment_method_data.kind = "BankTransfer" ->
            [panicked |-> FALSE, v |-> [kind |-> "BankTransfer"]]
      [] payment_method_data.kind = "PayLater" ->
            [panicked |-> FALSE,
             v |-> [kind |-> "PayLater",
                    pay_later |-> payment_method_data.pay_later]]
      [] payment_method_data.kind = "Wallet" ->
            [panicked |-> FALSE, v |-> [kind |-> "Wallet"]]
      [] payment_method_data.kind = "Paypal" ->
            [panicked |-> FALSE, v |-> [kind |-> "Paypal"]]

\* struct PaymentsRequest with the fields From<PaymentsRequest> reads
\* (payment_id, merchant_id, payment_method_data, mandate_data) and two it
\* does not copy (amount, mandate_id)
PaymentsRequestItems ==
    [payment_id          : Option([tag : PaymentIdTags, id : {<<"a">>}]),
     merchant_id         : Option({<<"m">>}),
     amount              : Option({200}),
     payment_method_data : Option(PaymentMethod),
     mandate_data        : Option({[customer_acceptance |->
                                       [acceptance_type |-> "Offline"]]}),
     mandate_id          : Option({<<"a">>})]

\* struct PaymentsRetrieveRequest
PaymentsRetrieveRequest ==
    [resource_id : [tag : PaymentIdTags, id : {<<>>, <<"a">>}],
     merchant_id : Option({<<"m">>}),
     force_sync  : BOOLEAN]

\* impl Default for PaymentsResponse (derived), on the fields modelled
PaymentsResponseDefault ==
    [payment_id |-> None, merchant_id |-> None, amount |-> 0,
     mandate_id |-> None, mandate_data |-> None,
     payment_method_data |-> None]

\* impl From<PaymentsRequest> for PaymentsResponse
PaymentsResponseFromPaymentsRequest(i) ==
    LET payment_id ==
            IF i.payment_id.some /\ i.payment_id.v.tag = "PaymentIntentId"
            THEN Some(i.payment_id.v.id)
            ELSE None
        pmd == IF i.payment_method_data.some
               THEN PaymentMethodDataResponseFrom(i.payment_method_data.v)
               ELSE [panicked |-> FALSE]
    IN  IF pmd.panicked THEN [called |-> TRUE, panicked |-> TRUE]
        ELSE [called |-> TRUE, panicked |-> FALSE,
              response |->
                [PaymentsResponseDefault EXCEPT
                    !.payment_id = payment_id,
                    !.merchant_id = i.merchant_id,
                    !.payment_method_data =
                        IF i.payment_method_data.some THEN Some(pmd.v)
                        ELSE None,
                    !.mandate_data = i.mandate_data]]

PaymentsResponseFromPaymentsRetrieveRequest_AnyTag(i) ==
    [called |-> TRUE, panicked |-> FALSE,
     response |->
        [PaymentsResponseDefault EXCEPT
            !.payment_id = Some(i.resource_id.id),
            !.merchant_id = i.merchant_id]]

\* impl From<PaymentsRetrieveRequest> for PaymentsResponse
PaymentsResponseFromPaymentsRetrieveRequest(i) ==
    LET payment_id ==
            IF i.resource_id.tag = "PaymentIntentId"
            THEN Some(i.resource_id.id)
            ELSE None
    IN  [called |-> TRUE, panicked |-> FALSE,
         response |->
            [PaymentsResponseDefault EXCEPT
                !.payment_id = payment_id,
                !.merchant_id = i.merchant_id]]

\* A request of one of the two kinds arrives.
NewItem(kind, i) ==
    /\ item' = [kind |-> kind, v |-> i]
    /\ response' = NotCalled

\* PaymentsResponse::from(item)
BuildResponse ==
    /\ ~response.called
    /\ response' =
          IF item.kind = "PaymentsRequest"
          THEN PaymentsResponseFromPaymentsRequest(item.v)
          ELSE PaymentsResponseFromPaymentsRetrieveRequest(item.v)
    /\ UNCHANGED item

\* impl Default for PaymentsRetrieveRequest (derived)
PaymentsRetrieveRequestDefault ==
    [resource_id |-> PaymentIdTypeDefault, merchant_id |-> None,
     force_sync |-> FALSE]

InitProjection ==
    /\ item = [kind |-> "PaymentsRetrieveRequest",
               v |-> PaymentsRetrieveRequestDefault]
    /\ response = NotCalled

----------------------------------------------------------------------------
(* Tasks calling the reducer, the classifier and the narrowing on inputs    *)
(* they share.  The reducer takes its AttemptStatus by value; is_mandate    *)
(* and get_payment_intent_id take &self, a shared borrow of the value.      *)

Tasks == 1..NumTasks

Functions == {"IntentStatus::from", "is_mandate", "get_payment_intent_id"}

SharedInputs ==
    [att   : AttemptStatus,
     ident : [tag : PaymentIdTags, id : {<<"a">>}],
     req   : {r \in PaymentsRequest :
                 /\ r.payment_id = None /\ r.amount = None
                 /\ r.mandate_id \in {None, Some(<<"a">>)}
                 /\ r.mandate_data \in
                      {None, Some([customer_acceptance |->
                                      [acceptance_type |-> "Offline"]])}}]

\* what function f returns on inputs in
Apply(f, in) ==
    CASE f = "IntentStatus::from" -> IntentStatusFrom(in.att)
      [] f = "is_mandate" -> is_mandate(in.req)
      [] f = "get_payment_intent_id" -> get_payment_intent_id(in.ident)

\* The inputs are built and handed to the tasks while none is in a call.
Share(in) ==
    /\ \A t \in Tasks : pc[t] = "idle"
    /\ shared' = in
    /\ published' = in
    /\ UNCHANGED <<pc, calling, result>>

\* Task t enters function f.
Enter(t, f) ==
    /\ pc[t] = "idle"
    /\ pc' = [pc EXCEPT ![t] = "called"]
    /\ calling' = [calling EXCEPT ![t] = f]
    /\ UNCHANGED <<shared, published, result>>

\* A narrowing that moves the string out of the identifier it is given.
Return_TakingId(t) ==
    /\ pc[t] = "called"
    /\ result' = [result EXCEPT ![t] = Apply(calling[t], shared)]
    /\ pc' = [pc EXCEPT ![t] = "returned"]
    /\ shared' = IF calling[t] = "get_payment_intent_id"
                 THEN [shared EXCEPT !.ident.id = <<>>]
                 ELSE shared
    /\ UNCHANGED <<published, calling>>

\* Task t runs the body of its function and returns: the body reads its
\* argument and writes nothing but its return value.
Return(t) ==
    /\ pc[t] = "called"
    /\ result' = [result EXCEPT ![t] = Apply(calling[t], shared)]
    /\ pc' = [pc EXCEPT ![t] = "returned"]
    /\ UNCHANGED <<shared, published, calling>>

\* Task t drops the result and is free to call again.
Drop(t) ==
    /\ pc[t] = "returned"
    /\ pc' = [pc EXCEPT ![t] = "idle"]
    /\ result' = [result EXCEPT ![t] = NotCalled]
    /\ calling' = [calling EXCEPT ![t] = "none"]
    /\ UNCHANGED <<shared, published>>

SharedDefault ==
    [att |-> "Started",
     ident |-> [tag |-> "PaymentIntentId", id |-> <<"a">>],
     req |-> PaymentsRequestDefault]

InitTasks ==
    /\ shared = SharedDefault
    /\ published = SharedDefault
    /\ pc = [t \in Tasks |-> "idle"]
    /\ calling = [t \in Tasks |-> "none"]
    /\ result = [t \in Tasks |-> NotCalled]

----------------------------------------------------------------------------
(* NextAction *)

\* enum NextActionType
NextActionType ==
    {"RedirectToUrl", "DisplayQrCode", "InvokeSdkClient", "TriggerApi"}

Urls == {<<"u">>, <<"u", "u">>}

\* struct NextAction: both fields are public, the type relates them in no way
NextAction ==
    [next_action_type : NextActionType, redirect_to_url : Option(Urls)]

BuildNextAction_KeepUrl(kind, url) ==
    [next_action_type |-> kind, redirect_to_url |-> url]

\* The next action of a response as the response builder fills it: the
\* redirect URL is set for the redirect kind only.
BuildNextAction(kind, url) ==
    [next_action_type |-> kind,
     redirect_to_url |-> IF kind = "RedirectToUrl" THEN url ELSE None]

\* A response with a next action of the given kind is built, with whatever
\* URL the connector supplied, and put on the list.
PushResponse(kind, url) ==
    /\ Len(data) < MaxResponses
    /\ data' = Append(data, BuildNextAction(kind, url))

InitNextAction == data = <<>>

----------------------------------------------------------------------------
(* PaymentListConstraints *)

\* fn default_limit() -> i64
default_limit == 10

LimitValues == {-1, 0, 1, 10, 100}

CustomerIds == {<<"c", "1">>, <<"c", "2">>}

\* the fields a list request can carry, each one present or not
ListQuery ==
    [customer_id    : Option(CustomerIds),
     starting_after : Option({<<"a">>}),
     ending_before  : Option({<<"a", "a">>}),
     limit          : Option(LimitValues)]

\* limit declared #[serde(default)]: a missing limit is i64::default()
deserialize_PlainDefault(q) ==
    [called |-> TRUE,
     customer_id |-> q.customer_id,
     starting_after |-> q.starting_after,
     ending_before |-> q.ending_before,
     limit |-> IF q.limit.some THEN q.limit.v ELSE 0]

\* Deserialize for PaymentListConstraints (derived): an Option field that is
\* missing is None, limit is #[serde(default = "default_limit")].
deserialize(q) ==
    [called |-> TRUE,
     customer_id |-> q.customer_id,
     starting_after |-> q.starting_after,
     ending_before |-> q.ending_before,
     limit |-> IF q.limit.some THEN q.limit.v ELSE default_limit]

\* A list request arrives.
NewQuery(q) ==
    /\ query' = q
    /\ constraints' = NotCalled

\* The request is deserialized into PaymentListConstraints.
DeserializeQuery ==
    /\ ~constraints.called
    /\ constraints' = deserialize(query)
    /\ UNCHANGED query

InitList ==
    /\ query = [customer_id |-> None, starting_after |-> None,
                ending_before |-> None, limit |-> None]
    /\ constraints = NotCalled

----------------------------------------------------------------------------
(* Specifications *)

otherThanReducer ==
    <<narrowVars, mandateVars, serdeVars, traitVars, cardVars,
      taskVars, actionVars, listVars,
      projVars>>

otherThanNarrow ==
    <<reducerVars, mandateVars, serdeVars, traitVars, cardVars,
      taskVars, actionVars, listVars,
      projVars>>

otherThanMandate ==
    <<reducerVars, narrowVars, serdeVars, traitVars, cardVars,
      taskVars, actionVars, listVars,
      projVars>>

otherThanSerde ==
    <<reducerVars, narrowVars, mandateVars, traitVars, cardVars,
      taskVars, actionVars, listVars,
      projVars>>

otherThanTraits ==
    <<reducerVars, narrowVars, mandateVars, serdeVars, cardVars,
      taskVars, actionVars, listVars,
      projVars>>

otherThanCard ==
    <<reducerVars, narrowVars, mandateVars, serdeVars, traitVars,
      taskVars, actionVars, listVars,
      projVars>>

otherThanTasks ==
    <<reducerVars, narrowVars, mandateVars, serdeVars, traitVars, cardVars,
      actionVars, listVars,
      projVars>>

otherThanNextAction ==
    <<reducerVars, narrowVars, mandateVars, serdeVars, traitVars, cardVars,
      taskVars, listVars,
      projVars>>

otherThanList ==
    <<reducerVars, narrowVars, mandateVars, serdeVars, traitVars, cardVars,
      taskVars, actionVars,
      projVars>>

otherThanProjection ==
    <<reducerVars, narrowVars, mandateVars, serdeVars, traitVars, cardVars,
      taskVars, actionVars, listVars>>

\* State after construction: nothing called yet, every value at its Default.
Init ==
    /\ InitReducer
    /\ InitNarrow
    /\ InitMandate
    /\ InitSerde
    /\ InitTraits
    /\ InitCard
    /\ InitTasks
    /\ InitNextAction
    /\ InitList
    /\ InitProjection

ReducerCall ==
    /\ \E s \in AttemptStatus : Reduce(s)
    /\ UNCHANGED otherThanReducer

NextReducer == ReducerCall

SpecReducer == Init /\ [][NextReducer]_vars

HoldId ==
    /\ \E p \in PaymentIdType : Hold(p)
    /\ UNCHANGED otherThanNarrow

NarrowCall ==
    /\ Narrow
    /\ UNCHANGED otherThanNarrow

NextNarrow == HoldId \/ NarrowCall

SpecNarrow == Init /\ [][NextNarrow]_vars

RequestArrives ==
    /\ \E r \in PaymentsRequest : NewRequest(r)
    /\ UNCHANGED otherThanMandate

IsMandateCall ==
    /\ IsMandate
    /\ UNCHANGED otherThanMandate

NextMandate == RequestArrives \/ IsMandateCall

SpecMandate == Init /\ [][NextMandate]_vars

NewSample ==
    /\ \E p \in [tag : PaymentIdTags, id : StringsUpTo(MaxPayloadLen)] :
          Sample(p)
    /\ UNCHANGED otherThanSerde

Serialize ==
    /\ SerializeSample
    /\ UNCHANGED otherThanSerde

Deserialize ==
    /\ DeserializeText
    /\ UNCHANGED otherThanSerde

NextSerde == NewSample \/ Serialize \/ Deserialize

SpecSerde == Init /\ [][NextSerde]_vars

ImplTrait ==
    /\ \E c \in Connectors, t \in Traits : Impl(c, t)
    /\ UNCHANGED otherThanTraits

RegisterConnector ==
    /\ \E c \in Connectors : Register(c)
    /\ UNCHANGED otherThanTraits

CallConnector ==
    /\ \E c \in Connectors, op \in Operations : Call(c, op)
    /\ UNCHANGED otherThanTraits

NextTraits == ImplTrait \/ RegisterConnector \/ CallConnector

SpecTraits == Init /\ [][NextTraits]_vars

CardArrives ==
    /\ \E c \in CCard : NewCard(c)
    /\ UNCHANGED otherThanCard

CardResponse ==
    /\ ProjectCard
    /\ UNCHANGED otherThanCard

NextCard == CardArrives \/ CardResponse

SpecCard == Init /\ [][NextCard]_vars

ShareInputs ==
    /\ \A t \in Tasks : pc[t] = "idle"
    /\ \E in \in SharedInputs : Share(in)
    /\ UNCHANGED otherThanTasks

TaskEnters ==
    /\ \E t \in Tasks, f \in Functions : Enter(t, f)
    /\ UNCHANGED otherThanTasks

TaskReturns ==
    /\ \E t \in Tasks : Return(t)
    /\ UNCHANGED otherThanTasks

TaskDrops ==
    /\ \E t \in Tasks : Drop(t)
    /\ UNCHANGED otherThanTasks

NextTasks == ShareInputs \/ TaskEnters \/ TaskReturns \/ TaskDrops

SpecTasks == Init /\ [][NextTasks]_vars

ResponseBuilt ==
    /\ \E kind \in NextActionType, url \in Option(Urls) :
          PushResponse(kind, url)
    /\ UNCHANGED otherThanNextAction

NextNextAction == ResponseBuilt

SpecNextAction == Init /\ [][NextNextAction]_vars

QueryArrives ==
    /\ \E q \in ListQuery : NewQuery(q)
    /\ UNCHANGED otherThanList

QueryDeserialized ==
    /\ DeserializeQuery
    /\ UNCHANGED otherThanList

NextList == QueryArrives \/ QueryDeserialized

SpecList == Init /\ [][NextList]_vars

RequestToProject ==
    /\ \E i \in PaymentsRequestItems : NewItem("PaymentsRequest", i)
    /\ UNCHANGED otherThanProjection

RetrieveToProject ==
    /\ \E i \in PaymentsRetrieveRequest :
          NewItem("PaymentsRetrieveRequest", i)
    /\ UNCHANGED otherThanProjection

ResponseFromItem ==
    /\ BuildResponse
    /\ UNCHANGED otherThanProjection

NextProjection == RequestToProject \/ RetrieveToProject \/ ResponseFromItem

SpecProjection == Init /\ [][NextProjection]_vars

----------------------------------------------------------------------------
(* C1: every call of the reducer returns the intent status the mapping     *)
(* table gives for its attempt status.                                      *)

MappingTable ==
    [a \in {"Charged", "AutoRefunded"} |-> "Succeeded"]
    @@ [a \in {"ConfirmationAwaited"} |-> "RequiresConfirmation"]
    @@ [a \in {"PaymentMethodAwaited"} |-> "RequiresPaymentMethod"]
    @@ [a \in {"Authorized"} |-> "RequiresCapture"]
    @@ [a \in {"PendingVbv"} |-> "RequiresCustomerAction"]
    @@ [a \in {"PartialCharged", "Started", "VbvSuccessful", "Authorizing",
               "CodInitiated", "VoidInitiated", "CaptureInitiated",
               "Pending"} |-> "Processing"]
    @@ [a \in {"AuthenticationFailed", "AuthorizationFailed", "VoidFailed",
               "JuspayDeclined", "CaptureFailed", "Failure"} |-> "Failed"]
    @@ [a \in {"Voided"} |-> "Cancelled"]

\* C1: each logged reducer call returned MappingTable[its argument], and the
\* table covers exactly the attempt statuses.
C1_ReducerMatchesTable ==
    /\ DOMAIN MappingTable = AttemptStatus
    /\ \A i \in 1..Len(reduceLog) :
          reduceLog[i].status = MappingTable[reduceLog[i].s]

C1_Witness ==
    /\ Len(reduceLog) = MaxCalls
    /\ reduceLog[1].s = "PartialCharged" /\ reduceLog[1].status = "Processing"
    /\ reduceLog[2].s = "JuspayDeclined" /\ reduceLog[2].status = "Failed"
    /\ reduceLog[3].s = "Voided" /\ reduceLog[3].status = "Cancelled"

----------------------------------------------------------------------------
(* C3: narrowing returns the carried string exactly for the PaymentIntentId *)
(* tag, fails with IncorrectValueProvided{payment_id} for the two other     *)
(* tags, and leaves the identifier as it was.                               *)

\* C3: after a call, the result is Ok(id) iff the tag is PaymentIntentId,
\* otherwise it is the payment_id validation error and carries no string.
C3_NarrowingByTag ==
    /\ self_id = held
    /\ narrowed.called =>
        /\ (narrowed.ok <=> self_id.tag = "PaymentIntentId")
        /\ narrowed.ok => narrowed.value = self_id.id
        /\ ~narrowed.ok =>
              /\ narrowed.error = [kind |-> "IncorrectValueProvided",
                                    field_name |-> "payment_id"]
              /\ "value" \notin DOMAIN narrowed

C3_Witness ==
    /\ narrowed.called
    /\ self_id.tag = "PaymentTxnId"
    /\ Len(self_id.id) = MaxIdLen
    /\ ~narrowed.ok

----------------------------------------------------------------------------
(* C4: the mandate classifier over (mandate_data present, mandate_id       *)
(* present).                                                                *)

\* the truth table of the classifier: classify[data present][id present]
Classify ==
    [d \in BOOLEAN |-> [i \in BOOLEAN |->
        IF i THEN Some("RecurringMandateTxn")
        ELSE IF d THEN Some("NewMandateTxn")
        ELSE None]]

\* C4: whatever the request, is_mandate returns the table's entry for the
\* presence of mandate_data and mandate_id, so mandate_id wins when both are
\* present and no other field changes the result.
C4_MandateTruthTable ==
    mandate.called =>
        mandate.ret = Classify[request.mandate_data.some][request.mandate_id.some]

C4_Witness ==
    /\ mandate.called
    /\ request.mandate_data.some /\ request.mandate_id.some
    /\ request.payment_id.some /\ request.amount.some
    /\ mandate.ret = Some("RecurringMandateTxn")

----------------------------------------------------------------------------
(* C5: round trip of the identifier through its JSON text.                 *)

\* C5: decoding the text of a serialized identifier gives back the same tag
\* and the same string, and two serialized identifiers that differ in tag or
\* string have different texts.
C5_RoundTrip ==
    /\ ds_sample.called =>
          /\ ds_sample.ok
          /\ ds_sample.value.tag = sample.tag
          /\ ds_sample.value.id = sample.id
    /\ (s_sample.called /\ serialized.some /\ serialized.v.sample # sample)
          => serialized.v.text # s_sample.text

C5_Witness ==
    /\ ds_sample.called /\ ds_sample.ok
    /\ sample.tag = "PaymentTxnId"
    /\ sample.id = <<Backslash, Quote>>
    /\ serialized.some
    /\ serialized.v.sample = [tag |-> "ConnectorTransactionId", id |-> <<Quote>>]

----------------------------------------------------------------------------
(* C6: the Payment trait and the connectors admitted through it.           *)

AllFive(c) == PaymentSupertraits \subseteq impls[c]

SupportsAll(c) ==
    \A op \in Operations : ConnectorIntegration[op] \in impls[c]

RegistrySound ==
    /\ \A c \in registry : AllFive(c) /\ SupportsAll(c)
    /\ (last_event.kind = "register" /\ ~AllFive(last_event.connector))
          => (~last_event.admitted /\ last_event.connector \notin registry)
    /\ last_event.kind = "call" => last_event.outcome = "handled"

\* C6 as stated: a connector implements Payment if and only if it
\* implements ConnectorCommon and the four per-operation traits, a connector
\* lacking one is rejected at registration, every admitted connector
\* supports the four operations and no call ends unsupported.
C6_PaymentIffAllFive ==
    /\ \A c \in Connectors : ("Payment" \in impls[c]) <=> AllFive(c)
    /\ RegistrySound

\* C6 amended: a connector implements Payment only if it implements
\* ConnectorCommon and the four per-operation traits; the rest as stated.
C6_PaymentOnlyIfAllFive ==
    /\ \A c \in Connectors : ("Payment" \in impls[c]) => AllFive(c)
    /\ RegistrySound

C6_Witness ==
    /\ registry = {"c1"}
    /\ AllFive("c2") /\ "Payment" \notin impls["c2"]
    /\ last_event.kind = "call" /\ last_event.op = "Void"
    /\ last_event.outcome = "handled"

C6_WitnessRejected ==
    /\ last_event.kind = "register" /\ ~last_event.admitted
    /\ impls[last_event.connector] =
          (PaymentSupertraits \ {"PaymentVoid"})
              \cup {ConnectorIntegration[op] : op \in Operations}

----------------------------------------------------------------------------
(* C7: what the card response shows of the card.                           *)

\* C7: a card response has the fields last4, exp_month and exp_year only,
\* its last4 is not the full card number, and no field holds the card
\* holder name or the CVC.
C7_CardResponseHidesCard ==
    (card_response.called /\ ~card_response.panicked) =>
        LET r == card_response.response IN
        /\ DOMAIN r = {"last4", "exp_month", "exp_year"}
        /\ r.exp_month = card.card_exp_month
        /\ r.exp_year = card.card_exp_year
        /\ r.last4 # card.card_number
        /\ \A f \in DOMAIN r :
              r[f] # card.card_holder_name /\ r[f] # card.card_cvc

----------------------------------------------------------------------------
(* C8: concurrent and repeated calls of the three pure functions.          *)

----------------------------------------------------------------------------
(* C9: the redirect URL of a next action.                                  *)

----------------------------------------------------------------------------
(* C10: the limit of the list constraints.                                 *)

\* C10: constraints deserialized from a request without a limit have limit
\* 10; from a request with a limit, that limit.
C10_LimitDefaultsToTen ==
    constraints.called =>
        /\ ~query.limit.some => constraints.limit = 10
        /\ query.limit.some => constraints.limit = query.limit.v

C10_Witness ==
    /\ constraints.called
    /\ ~query.limit.some
    /\ query.customer_id.some
    /\ constraints.limit = 10

C10_WitnessSupplied ==
    /\ constraints.called
    /\ query.limit = Some(100)
    /\ constraints.limit = 100

----------------------------------------------------------------------------
(* C11: the payment_id of a response against the narrowing of the          *)
(* identifier of the request it is built from.                              *)

\* the identifier of the request, if it has one
ItemIdentifier ==
    IF item.kind = "PaymentsRequest" THEN item.v.payment_id
    ELSE Some(item.v.resource_id)

\* C11: in a response built from a PaymentsRequest or a
\* PaymentsRetrieveRequest, payment_id is Some(id) exactly when
\* get_payment_intent_id on the request's identifier returns Ok(id), and
\* None exactly when it fails or the request has no identifier; the string
\* of a ConnectorTransactionId or PaymentTxnId is never the payment_id.
C11_ProjectionAgreesWithNarrowing ==
    (response.called /\ ~response.panicked) =>
        LET pid == response.response.payment_id IN
        IF ItemIdentifier.some
        THEN LET n == get_payment_intent_id(ItemIdentifier.v) IN
             /\ pid.some <=> n.ok
             /\ n.ok => pid = Some(n.value)
             /\ ~n.ok => /\ pid = None
                         /\ ItemIdentifier.v.tag \in
                               {"ConnectorTransactionId", "PaymentTxnId"}
        ELSE pid = None

C11_Witness ==
    /\ response.called /\ ~response.panicked
    /\ item.kind = "PaymentsRetrieveRequest"
    /\ item.v.resource_id = [tag |-> "ConnectorTransactionId", id |-> <<"a">>]
    /\ response.response.payment_id = None

C11_WitnessRequest ==
    /\ response.called /\ ~response.panicked
    /\ item.kind = "PaymentsRequest"
    /\ item.v.payment_id = Some([tag |-> "PaymentIntentId", id |-> <<"a">>])
    /\ item.v.payment_method_data.some
    /\ item.v.payment_method_data.v.kind = "Card"
    /\ response.response.payment_id = Some(<<"a">>)

----------------------------------------------------------------------------
(* C12: the card projection on card numbers of every length.               *)

Min(a, b) == IF a < b THEN a ELSE b

\* C12: CCardResponse::from completes for every card number, and its last4
\* is the final min(4, length) characters of the number, exp_month and
\* exp_year the card's.
C12_CardProjectionTotal ==
    card_response.called =>
        /\ ~card_response.panicked
        /\ LET n == Len(card.card_number)
               r == card_response.response IN
           /\ r.last4 = SubSeq(card.card_number, n - Min(4, n) + 1, n)
           /\ r.exp_month = card.card_exp_month
           /\ r.exp_year = card.card_exp_year

\* Where the projection does complete it gives the last 4 characters and
\* the expiry of the card.
C12_Last4WhenLongEnough ==
    (card_response.called /\ Len(card.card_number) >= 4) =>
        /\ ~card_response.panicked
        /\ Len(card_response.response.last4) = 4
        /\ \A k \in 1..4 :
              card_response.response.last4[k] =
                  card.card_number[Len(card.card_number) - 4 + k]
        /\ card_response.response.exp_month = card.card_exp_month
        /\ card_response.response.exp_year = card.card_exp_year

====
